---- MODULE Spec2Model ----
(***************************************************************************)
(* Trip planner of src/src/App.jsx: the itinerary generator                *)
(* (generateItineraryDays), the selection and day-edit handlers of the App *)
(* component, and the cost lines derived from the day list.                *)
(*                                                                         *)
(* Money is modelled in whole rupees.  The ferry class multipliers 1, 1.4  *)
(* and 1.9 are kept as tenths (10, 14, 19); 1500 * tenths is a multiple of *)
(* 10, so the division by 10 is exact.  Binary floating-point rounding of  *)
(* the products is not modelled.                                           *)
(* The transport label of ferry and departure days is an em dash in the    *)
(* source; it is written "-" here.                                         *)
(***************************************************************************)
EXTENDS Integers, Sequences, FiniteSets, TLC

(***************************************************************************)
(* Bounds of the model                                                     *)
(***************************************************************************)
\* user operations other than selection changes (day edits and settings)
\* carried out in one session
MaxOps == 2
\* largest head count typed into the Adults / Infants fields
MaxPax == 2

(***************************************************************************)
(* Fixed reference tables                                                  *)
(***************************************************************************)
PB == "Port Blair (South Andaman)"
Havelock == "Havelock (Swaraj Dweep)"
Neil == "Neil (Shaheed Dweep)"
\* an island the canonical list does not name
Barren == "Barren Island"

DEFAULT_ISLANDS ==
  << PB, Havelock, Neil,
     "Long Island (Middle Andaman)", "Rangat (Middle Andaman)",
     "Mayabunder (Middle Andaman)", "Diglipur (North Andaman)",
     "Little Andaman" >>

FERRY_BASE_ECON == 1500
P2P_RATE_PER_HOP == 500
SCOOTER_DAY_RATE == 800

NoTransport == "-"
TransportModes == {"Point-to-Point", "Day Cab", "Scooter", NoTransport}

(***************************************************************************)
(* Generic helpers                                                         *)
(***************************************************************************)
Range(s) == {s[i] : i \in 1..Len(s)}

Max(a, b) == IF a >= b THEN a ELSE b

\* Array.prototype.indexOf: 0-based position of the first x, -1 when absent
IndexOf(s, x) ==
  IF \E i \in 1..Len(s) : s[i] = x
    THEN (CHOOSE i \in 1..Len(s) : s[i] = x /\ \A j \in 1..(i-1) : s[j] # x) - 1
    ELSE -1

\* Array.prototype.filter keeping the elements different from x
Without(s, x) == SelectSeq(s, LAMBDA y : y # x)

\* the least element of a non-empty set of integers (Array.prototype.find
\* returns the first match)
SetMinOf(S) == CHOOSE x \in S : \A y \in S : x <= y

RECURSIVE SumSeq(_)
SumSeq(s) == IF s = <<>> THEN 0 ELSE Head(s) + SumSeq(Tail(s))

\* a non-empty string is truthy
Truthy(s) == s # ""

(***************************************************************************)
(* Reference data handed to the App by the loader (already normalised:     *)
(* durationHrs is a finite number, bestTimes is an array).                 *)
(***************************************************************************)
Loc(id, island, dur, best) ==
  [id |-> id, island |-> island, durationHrs |-> dur, bestTimes |-> best]

\* five short stops on one leisure island: a day fills up by count
DataLeisure ==
  << Loc("HL1", Havelock, 1, <<"Sunset">>),
     Loc("HL2", Havelock, 2, <<>>),
     Loc("HL3", Havelock, 1, <<"Early Morning">>),
     Loc("HL4", Havelock, 2, <<"Afternoon", "Evening">>),
     Loc("HL5", Havelock, 1, <<"Night">>) >>

\* hub stops that overflow the day by time, a stop longer than a day, and an
\* island outside the canonical list
DataMixed ==
  << Loc("NL1", Neil, 8, <<"Sunrise">>),
     Loc("PB1", PB, 3, <<"Evening">>),
     Loc("BR1", Barren, 2, <<>>),
     Loc("PB2", PB, 3, <<"Morning">>),
     Loc("PB3", PB, 2, <<"Afternoon">>) >>

\* a one-stop catalogue for sessions with day edits and settings: the hub
\* and one more island
DataSmall ==
  << Loc("HL1", Havelock, 2, <<"Sunset">>) >>

\* three short hub stops that share one day, and a stop on a leisure island:
\* for the ground transport of a day with several stops
DataHub ==
  << Loc("PB1", PB, 2, <<"Morning">>),
     Loc("PB2", PB, 2, <<>>),
     Loc("PB3", PB, 2, <<"Evening">>),
     Loc("HL1", Havelock, 2, <<"Sunset">>) >>

(***************************************************************************)
(* orderByBestTime                                                         *)
(***************************************************************************)
\* String(x).toLowerCase().includes(word), on the tags the data uses
Mentions(tag, word) ==
  CASE word = "morning"   -> tag \in {"Morning", "Early Morning"}
    [] word = "sunrise"   -> tag \in {"Sunrise"}
    [] word = "afternoon" -> tag \in {"Afternoon"}
    [] word = "evening"   -> tag \in {"Evening"}
    [] word = "sunset"    -> tag \in {"Sunset"}
    [] OTHER              -> FALSE

rank(it) ==
  LET arr == it.bestTimes
      some(w1, w2) == \E i \in 1..Len(arr) : Mentions(arr[i], w1) \/ Mentions(arr[i], w2)
  IN  IF some("morning", "sunrise") THEN 0
      ELSE IF some("afternoon", "afternoon") THEN 1
      ELSE IF some("evening", "sunset") THEN 2
      ELSE 3

\* Array.prototype.sort with a comparator key(a) - key(b) is a stable sort by
\* key.  ps is a sequence of <<key, element>> pairs; a pair goes behind every
\* pair already placed whose key is not larger.
InsertByKey(sorted, p) ==
  LET n == Cardinality({i \in 1..Len(sorted) : sorted[i][1] <= p[1]})
  IN  SubSeq(sorted, 1, n) \o <<p>> \o SubSeq(sorted, n + 1, Len(sorted))

RECURSIVE StableSortPairs(_)
StableSortPairs(ps) ==
  IF ps = <<>> THEN <<>>
  ELSE InsertByKey(StableSortPairs(SubSeq(ps, 1, Len(ps) - 1)), ps[Len(ps)])

\* s sorted by the keys given beside it: keys[i] is the key of s[i]
StableSort(s, keys) ==
  LET sorted == StableSortPairs([i \in 1..Len(s) |-> <<keys[i], s[i]>>])
  IN  [i \in 1..Len(s) |-> sorted[i][2]]

\* orderByBestTime handing back the items in the order it got them
orderByBestTime_Unsorted(items) == items

orderByBestTime(items) ==
  StableSort(items, [i \in 1..Len(items) |-> rank(items[i])])

(***************************************************************************)
(* generateItineraryDays                                                   *)
(***************************************************************************)
ArrivalDay ==
  [island |-> PB,
   items |-> << [type |-> "arrival"], [type |-> "transfer"] >>,
   transport |-> "Point-to-Point"]

DepartureDay ==
  [island |-> PB,
   items |-> << [type |-> "departure"] >>,
   transport |-> NoTransport]

\* the ferry day pushed after an island that has a successor
FerryDay(island, nextIsland) ==
  [island |-> island,
   items |-> << [type |-> "ferry", from |-> island, to |-> nextIsland,
                 time |-> "08:00-09:30"] >>,
   transport |-> NoTransport]

\* ReturnFerryDay carrying the transport of an ordinary day
ReturnFerryDay_PointToPoint(lastIsland) ==
  [island |-> lastIsland,
   items |-> << [type |-> "ferry", from |-> lastIsland, to |-> PB] >>,
   transport |-> "Point-to-Point"]

\* the ferry day that returns to the hub
ReturnFerryDay(lastIsland) ==
  [island |-> lastIsland,
   items |-> << [type |-> "ferry", from |-> lastIsland, to |-> PB] >>,
   transport |-> NoTransport]

\* Object.keys(byIsland): the islands in order of first appearance
RECURSIVE byIslandKeys(_)
byIslandKeys(locs) ==
  IF locs = <<>> THEN <<>>
  ELSE LET init == byIslandKeys(SubSeq(locs, 1, Len(locs) - 1))
           isl  == locs[Len(locs)].island
       IN  IF isl \in Range(init) THEN init ELSE Append(init, isl)

byIsland(locs, island) == SelectSeq(locs, LAMBDA l : l.island = island)

canonicalIndex(island) == IndexOf(DEFAULT_ISLANDS, island)

\* visitOrder with the hub filtered out of the order but not put in front
visitOrder_HubDropped(locs, startFromPB) ==
  LET keys  == byIslandKeys(locs)
      order == StableSort(keys, [i \in 1..Len(keys) |-> canonicalIndex(keys[i])])
  IN  IF startFromPB
        THEN IF PB \in Range(order) THEN Without(order, PB)
                                    ELSE <<PB>> \o order
        ELSE order

\* visitOrder moving the hub to the front only when a hub stop is selected
visitOrder_HubOnlyIfSelected(locs, startFromPB) ==
  LET keys  == byIslandKeys(locs)
      order == StableSort(keys, [i \in 1..Len(keys) |-> canonicalIndex(keys[i])])
  IN  IF startFromPB /\ PB \in Range(order)
        THEN <<PB>> \o Without(order, PB)
        ELSE order

visitOrder(locs, startFromPB) ==
  LET keys  == byIslandKeys(locs)
      order == StableSort(keys, [i \in 1..Len(keys) |-> canonicalIndex(keys[i])])
  IN  IF startFromPB
        THEN IF PB \in Range(order) THEN <<PB>> \o Without(order, PB)
                                    ELSE <<PB>> \o order
        ELSE order

\* /Havelock|Neil/.test(island), on the islands of the data
leisureIsland(island) == island \in {Havelock, Neil}

\* flush asking for the leisure island before the number of stops
flush_LeisureFirst(island, bucket) ==
  IF bucket = <<>> THEN <<>>
  ELSE << [island |-> island,
           items |-> [i \in 1..Len(bucket) |->
                        [type |-> "location", ref |-> bucket[i].id,
                         durationHrs |-> bucket[i].durationHrs,
                         bestTimes |-> bucket[i].bestTimes]],
           transport |-> IF leisureIsland(island) THEN "Scooter"
                         ELSE IF Len(bucket) >= 3 THEN "Day Cab"
                         ELSE "Point-to-Point"] >>

flush(island, bucket) ==
  IF bucket = <<>> THEN <<>>
  ELSE << [island |-> island,
           items |-> [i \in 1..Len(bucket) |->
                        [type |-> "location", ref |-> bucket[i].id,
                         durationHrs |-> bucket[i].durationHrs,
                         bestTimes |-> bucket[i].bestTimes]],
           transport |-> IF Len(bucket) >= 3 THEN "Day Cab"
                         ELSE IF leisureIsland(island) THEN "Scooter"
                         ELSE "Point-to-Point"] >>

\* mustFlush with the count test off by one
mustFlush_CountOffByOne(bucket, timeUsed, dur) == Len(bucket) > 4 \/ timeUsed + dur > 7

\* mustFlush closing the day at three stops
mustFlush_CountThree(bucket, timeUsed, dur) == Len(bucket) >= 3 \/ timeUsed + dur > 7

\* whether the loop flushes the bucket before it pushes a stop of duration dur
mustFlush(bucket, timeUsed, dur) == Len(bucket) >= 4 \/ timeUsed + dur > 7

\* the while loop over locs and the final flush: the days of one island
RECURSIVE fillDays(_, _, _, _)
fillDays(island, locs, bucket, timeUsed) ==
  IF locs = <<>> THEN flush(island, bucket)
  ELSE LET x   == Head(locs)
           dur == x.durationHrs
       IN  IF mustFlush(bucket, timeUsed, dur)
             THEN flush(island, bucket)
                  \o fillDays(island, Tail(locs), <<x>>,
                              (IF bucket = <<>> THEN timeUsed ELSE 0) + dur)
             ELSE fillDays(island, Tail(locs), Append(bucket, x), timeUsed + dur)

\* islandDays with the ferry left out before the last island of the order
islandDays_LastHopMissing(locs, order, idx) ==
  fillDays(order[idx], orderByBestTime(byIsland(locs, order[idx])), <<>>, 0)
  \o (IF idx + 1 < Len(order) /\ Truthy(order[idx + 1])
        THEN << FerryDay(order[idx], order[idx + 1]) >>
        ELSE <<>>)

\* one round of order.forEach
islandDays(locs, order, idx) ==
  fillDays(order[idx], orderByBestTime(byIsland(locs, order[idx])), <<>>, 0)
  \o (IF idx < Len(order) /\ Truthy(order[idx + 1])
        THEN << FerryDay(order[idx], order[idx + 1]) >>
        ELSE <<>>)

RECURSIVE visitDays(_, _, _)
visitDays(locs, order, idx) ==
  IF idx > Len(order) THEN <<>>
  ELSE islandDays(locs, order, idx) \o visitDays(locs, order, idx + 1)

\* returnToHub without the test for the hub: the ferry back is always pushed
returnToHub_Always(ds) ==
  LET lastIsland == ds[Len(ds)].island
  IN  IF Truthy(lastIsland)
        THEN Append(ds, ReturnFerryDay(lastIsland))
        ELSE ds

returnToHub(ds) ==
  LET lastIsland == ds[Len(ds)].island
  IN  IF Truthy(lastIsland) /\ lastIsland # PB
        THEN Append(ds, ReturnFerryDay(lastIsland))
        ELSE ds

\* generateItineraryDays without the final push of the departure day
generateItineraryDays_NoFinalPush(locs, startFromPB) ==
  IF locs = <<>> THEN << ArrivalDay, DepartureDay >>
  ELSE returnToHub(<<ArrivalDay>>
                   \o visitDays(locs, visitOrder(locs, startFromPB), 1))

\* generateItineraryDays returning early without the departure day
generateItineraryDays_EarlyReturn(locs, startFromPB) ==
  IF locs = <<>> THEN << ArrivalDay >>
  ELSE Append(returnToHub(<<ArrivalDay>>
                          \o visitDays(locs, visitOrder(locs, startFromPB), 1)),
              DepartureDay)

generateItineraryDays(locs, startFromPB) ==
  IF locs = <<>> THEN << ArrivalDay, DepartureDay >>
  ELSE Append(returnToHub(<<ArrivalDay>>
                          \o visitDays(locs, visitOrder(locs, startFromPB), 1)),
              DepartureDay)

(***************************************************************************)
(* Pricing tables and the add-on catalogue                                 *)
(***************************************************************************)
\* FERRY_CLASS_MULT[ferryClass] ?? 1, in tenths
FERRY_CLASS_MULT(ferryClass) ==
  CASE ferryClass = "Economy" -> 10
    [] ferryClass = "Deluxe"  -> 14
    [] ferryClass = "Luxury"  -> 19
    [] OTHER                  -> 10

CAB_MODELS ==
  << [id |-> "sedan", dayRate |-> 2500],
     [id |-> "suv", dayRate |-> 3200],
     [id |-> "innova", dayRate |-> 3800],
     [id |-> "traveller", dayRate |-> 5200] >>

MOCK_HOTELS(island) ==
  CASE island = PB ->
         << [id |-> "pb_h1", sell_price |-> 3299],
            [id |-> "pb_h2", sell_price |-> 5499],
            [id |-> "pb_h3", sell_price |-> 8899] >>
    [] island = Havelock ->
         << [id |-> "hl_h1", sell_price |-> 4499],
            [id |-> "hl_h2", sell_price |-> 6999],
            [id |-> "hl_h3", sell_price |-> 10999] >>
    [] island = Neil ->
         << [id |-> "nl_h1", sell_price |-> 3399],
            [id |-> "nl_h2", sell_price |-> 5699] >>
    [] island = "Long Island (Middle Andaman)" ->
         << [id |-> "li_h1", sell_price |-> 6199] >>
    [] island = "Rangat (Middle Andaman)" ->
         << [id |-> "rg_h1", sell_price |-> 2599] >>
    [] island = "Mayabunder (Middle Andaman)" ->
         << [id |-> "mb_h1", sell_price |-> 2399] >>
    [] island = "Diglipur (North Andaman)" ->
         << [id |-> "dg_h1", sell_price |-> 2899] >>
    [] island = "Little Andaman" ->
         << [id |-> "la_h1", sell_price |-> 2199] >>
    [] OTHER -> <<>>

\* JavaScript values as the data files deliver them: a finite number, NaN,
\* a string, an array, null and undefined (an absent field reads as
\* undefined)
Num(n) == [t |-> "number", finite |-> TRUE, v |-> n]
NaN == [t |-> "number", finite |-> FALSE]
Str(s) == [t |-> "string", v |-> s]
Arr(s) == [t |-> "array", v |-> s]
Null == [t |-> "null"]
Undefined == [t |-> "undefined"]

\* the number n + 1/2: a duration between two whole hours
Half(n) == [t |-> "number", finite |-> TRUE, v |-> n, half |-> TRUE]

\* x <= k and x >= k for a finite number x and a whole number k
AtMost(x, k) == IF "half" \in DOMAIN x THEN x.v < k ELSE x.v <= k
AtLeast(x, k) == x.v >= k

\* the truthiness of a value, as || and the conditional read it
JsTruthy(x) ==
  CASE x.t = "string" -> x.v # ""
    [] x.t = "number" -> x.finite /\ (x.v # 0 \/ "half" \in DOMAIN x)
    [] x.t = "array"  -> TRUE
    [] OTHER          -> FALSE

\* Number.isFinite(x), and typeof x === "number" && isFinite(x)
IsFiniteNumber(x) == x.t = "number" /\ x.finite

\* x ?? y
Nullish(x) == x.t \in {"null", "undefined"}

\* record.field, undefined for an absent field
Field(record, name) == IF name \in DOMAIN record THEN record[name] ELSE Undefined

\* the add-on activities handed to the App by the loader, as they come from
\* the data file: both price fields, a null basePriceINR beside a price, no
\* price at all, a price that is not a number, and a negative price
activities ==
  << [id |-> "scuba", basePriceINR |-> Num(4500), price |-> Num(3000)],
     [id |-> "kayak", basePriceINR |-> Null, price |-> Num(1800)],
     [id |-> "walk"],
     [id |-> "cruise", price |-> Str("on request")],
     [id |-> "refund", price |-> Num(-500)] >>

safeNum(n) == IF IsFiniteNumber(n) THEN n.v ELSE 0

(***************************************************************************)
(* Loading the catalogue: normalizeLocation and inferMoods                 *)
(***************************************************************************)
\* the keywords of the mood patterns that occur in the lower-cased string:
\* what the regular expressions can find in the texts the data uses
WordsIn(s) ==
  CASE s = "Cellular Jail"             -> {"cellular", "jail"}
    [] s = "Radhanagar Beach"          -> {"beach"}
    [] s = "Mangrove Creek Kayaking"   -> {"mangrove", "kayak"}
    [] s = "Sunset view over the reef" -> {"sunset", "view", "reef"}
    [] OTHER                           -> {}

AdventureWords == {"snorkel", "scuba", "dive", "trek", "kayak", "surf", "jet", "parasail"}
RomanticWords == {"beach", "sunset", "view", "cove", "lagoon", "bay", "sandbar"}
FamilyWords == {"museum", "culture", "heritage", "jail", "cellular", "memorial"}
PhotographyWords ==
  {"wildlife", "reef", "coral", "mangrove", "bird", "nature", "peak", "national park"}
OffbeatWords ==
  {"lighthouse", "mangrove", "cave", "long island", "mud volcano", "baratang",
   "saddle peak", "remote"}

\* /w1|w2|.../.test(text), text being the name and the brief joined
Test(words, text) == \E part \in Range(text) : WordsIn(part) \cap words # {}

normalizeLocation(raw) ==
  LET own ==
        [name |->
           IF JsTruthy(Field(raw, "name")) THEN raw.name
           ELSE IF JsTruthy(Field(raw, "location")) THEN raw.location
           ELSE Str("Unnamed spot"),
         durationHrs |->
           IF IsFiniteNumber(Field(raw, "durationHrs")) THEN raw.durationHrs
           ELSE IF IsFiniteNumber(Field(raw, "typicalHours")) THEN raw.typicalHours
           ELSE Num(2),
         bestTimes |->
           IF Field(raw, "bestTimes").t = "array" THEN raw.bestTimes
           ELSE IF JsTruthy(Field(raw, "bestTime")) THEN Arr(<<raw.bestTime>>)
           ELSE Arr(<<>>),
         moods |-> IF Field(raw, "moods").t = "array" THEN raw.moods ELSE Null,
         image |-> IF JsTruthy(Field(raw, "image")) THEN raw.image ELSE Str("")]
  IN  [f \in DOMAIN raw \cup DOMAIN own |-> IF f \in DOMAIN own THEN own[f] ELSE raw[f]]

\* inferMoods calling a stop relaxed only below two hours
inferMoods_RelaxedBelowTwo(loc) ==
  LET text == << IF JsTruthy(Field(loc, "name")) THEN loc.name.v ELSE "",
                 IF JsTruthy(Field(loc, "brief")) THEN loc.brief.v ELSE "" >>
      dur  == IF IsFiniteNumber(Field(loc, "durationHrs")) THEN loc.durationHrs ELSE Num(2)
      tags == << [tag |-> "Relaxed",     on |-> AtMost(dur, 1)],
                 [tag |-> "Balanced",    on |-> AtLeast(dur, 3)],
                 [tag |-> "Active",      on |-> AtLeast(dur, 4)],
                 [tag |-> "Adventure",   on |-> Test(AdventureWords, text)],
                 [tag |-> "Romantic",    on |-> Test(RomanticWords, text)],
                 [tag |-> "Family",      on |-> Test(FamilyWords, text)],
                 [tag |-> "Photography", on |-> Test(PhotographyWords, text)],
                 [tag |-> "Offbeat",     on |-> Test(OffbeatWords, text)] >>
      added == SelectSeq(tags, LAMBDA c : c.on)
  IN  IF added = <<>> THEN Arr(<<"Balanced">>)
      ELSE Arr([i \in 1..Len(added) |-> added[i].tag])

\* inferMoods running the keyword tests before the duration tests
inferMoods_KeywordsFirst(loc) ==
  LET text == << IF JsTruthy(Field(loc, "name")) THEN loc.name.v ELSE "",
                 IF JsTruthy(Field(loc, "brief")) THEN loc.brief.v ELSE "" >>
      dur  == IF IsFiniteNumber(Field(loc, "durationHrs")) THEN loc.durationHrs ELSE Num(2)
      tags == << [tag |-> "Adventure",   on |-> Test(AdventureWords, text)],
                 [tag |-> "Romantic",    on |-> Test(RomanticWords, text)],
                 [tag |-> "Family",      on |-> Test(FamilyWords, text)],
                 [tag |-> "Photography", on |-> Test(PhotographyWords, text)],
                 [tag |-> "Offbeat",     on |-> Test(OffbeatWords, text)],
                 [tag |-> "Relaxed",     on |-> AtMost(dur, 2)],
                 [tag |-> "Balanced",    on |-> AtLeast(dur, 3)],
                 [tag |-> "Active",      on |-> AtLeast(dur, 4)] >>
      added == SelectSeq(tags, LAMBDA c : c.on)
  IN  IF added = <<>> THEN Arr(<<"Balanced">>)
      ELSE Arr([i \in 1..Len(added) |-> added[i].tag])

\* the tags are added to a Set in this order; Array.from keeps the order
inferMoods(loc) ==
  LET text == << IF JsTruthy(Field(loc, "name")) THEN loc.name.v ELSE "",
                 IF JsTruthy(Field(loc, "brief")) THEN loc.brief.v ELSE "" >>
      dur  == IF IsFiniteNumber(Field(loc, "durationHrs")) THEN loc.durationHrs ELSE Num(2)
      tags == << [tag |-> "Relaxed",     on |-> AtMost(dur, 2)],
                 [tag |-> "Balanced",    on |-> AtLeast(dur, 3)],
                 [tag |-> "Active",      on |-> AtLeast(dur, 4)],
                 [tag |-> "Adventure",   on |-> Test(AdventureWords, text)],
                 [tag |-> "Romantic",    on |-> Test(RomanticWords, text)],
                 [tag |-> "Family",      on |-> Test(FamilyWords, text)],
                 [tag |-> "Photography", on |-> Test(PhotographyWords, text)],
                 [tag |-> "Offbeat",     on |-> Test(OffbeatWords, text)] >>
      added == SelectSeq(tags, LAMBDA c : c.on)
  IN  IF added = <<>> THEN Arr(<<"Balanced">>)
      ELSE Arr([i \in 1..Len(added) |-> added[i].tag])

\* the locations memo: the moods of the record if it lists any, else the
\* inferred ones
withMoods(l) ==
  [l EXCEPT !.moods = IF l.moods.t = "array" /\ Len(l.moods.v) > 0
                        THEN l.moods ELSE inferMoods(l)]

\* the records a locations file may hold
RawRecords ==
  [id          : {"L1"},
   island      : {Havelock},
   name        : {Undefined, Str("Cellular Jail"), Str("Mangrove Creek Kayaking"),
                  Str("Aberdeen Bazaar")},
   location    : {Undefined, Str("Radhanagar Beach")},
   brief       : {Undefined, Str("Sunset view over the reef")},
   durationHrs : {Undefined, NaN, Str("3"), Num(-3), Num(0), Num(1), Num(2),
                  Half(2), Num(3), Num(4)},
   typicalHours : {Undefined, Str("4"), Num(-1), Num(5)},
   bestTimes   : {Undefined, Arr(<<"Sunset">>)},
   bestTime    : {Undefined, Str("Morning")},
   moods       : {Undefined, Arr(<<>>), Arr(<<"Family">>)}]

(***************************************************************************)
(* State of the App component                                              *)
(***************************************************************************)
VARIABLES
  fetched,        \* the records of the locations file, as fetched
  locations,      \* the loaded, normalised catalogue
  selectedIds,    \* ids chosen by the user, in click order
  startPB,        \* "start from Port Blair" flag
  days,           \* the day list shown and edited
  adults, infants,
  essentials,     \* [ferryClass, cabModelId]
  scooterIslands, \* islands opted into the flat scooter rate
  chosenHotels,   \* island -> hotel id, for the islands with a choice
  addonIds,       \* chosen add-on activities
  lastOp,         \* the handler that ran last
  edited,         \* a day tool ran since the day list was generated
  nEdits,         \* day tools run so far
  nSettings       \* settings changes carried out so far

vars == << fetched, locations, selectedIds, startPB, days, adults, infants, essentials,
           scooterIslands, chosenHotels, addonIds, lastOp, edited, nEdits,
           nSettings >>

settings == << adults, infants, essentials, scooterIslands, chosenHotels, addonIds >>

counters == << nEdits, nSettings >>

\* locations.filter((l) => selectedIds.includes(l.id))
selectedLocsOf(locs, ids) == SelectSeq(locs, LAMBDA l : l.id \in Range(ids))
selectedLocs == selectedLocsOf(locations, selectedIds)

\* the ids the detail modal can hand to onAddLocation: the id of the opened
\* location, and the ids of its nearby list, which the App fills with
\* locations of the same island
modalIds == {locations[i].id : i \in 1..Len(locations)}

(***************************************************************************)
(* Tests on the items of a day                                             *)
(***************************************************************************)
\* day.items.some((i) => i.type === t)
HasType(day, t) == \E k \in 1..Len(day.items) : day.items[k].type = t

\* day.items.filter((i) => i.type === t).length
CountType(day, t) == Cardinality({k \in 1..Len(day.items) : day.items[k].type = t})

\* a day with neither a ferry nor a departure item: the days that count as a
\* night, are charged ground transport and show the day tools
IsVisitingDay(day) == ~HasType(day, "ferry") /\ ~HasType(day, "departure")

(***************************************************************************)
(* Selection handlers and the regeneration effect                          *)
(***************************************************************************)
\* useEffect(() => setDays(generateItineraryDays(selectedLocs, startPB)),
\*           [selectedLocs, startPB]): the day list after the render that
\* follows a change of the selection or of the flag; prevDays is the list
\* the effect overwrites
regeneratedDays(prevDays, locs, ids, flag) ==
  generateItineraryDays(selectedLocsOf(locs, ids), flag)

\* the updater of the card button "Add to trip / Remove"
toggledIds(prev, id) ==
  IF id \in Range(prev) THEN Without(prev, id) ELSE Append(prev, id)

\* addedIds appending the id without looking for it in the list
addedIds_AlwaysAppends(prev, locId) == Append(prev, locId)

\* the updater of the modal's onAddLocation
addedIds(prev, locId) ==
  IF locId \in Range(prev) THEN prev ELSE Append(prev, locId)

toggleLocation ==
  \E i \in 1..Len(locations) :
    /\ selectedIds' = toggledIds(selectedIds, locations[i].id)
    /\ days' = regeneratedDays(days, locations, selectedIds', startPB)
    /\ lastOp' = "toggleLocation"
    /\ edited' = FALSE
    /\ UNCHANGED << fetched, locations, startPB, settings, counters >>

\* an updater that returns the array it was given changes no state: nothing
\* renders and no effect runs
onAddLocation ==
  \E locId \in modalIds :
    /\ Truthy(locId)
    /\ addedIds(selectedIds, locId) # selectedIds
    /\ selectedIds' = addedIds(selectedIds, locId)
    /\ days' = regeneratedDays(days, locations, selectedIds', startPB)
    /\ lastOp' = "onAddLocation"
    /\ edited' = FALSE
    /\ UNCHANGED << fetched, locations, startPB, settings, counters >>

\* toggleStartPB with the flag missing from the effect's dependencies
toggleStartPB_NoEffect ==
  /\ startPB' = ~startPB
  /\ lastOp' = "toggleStartPB"
  /\ UNCHANGED << fetched, locations, selectedIds, days, edited, settings, counters >>

toggleStartPB ==
  /\ startPB' = ~startPB
  /\ days' = regeneratedDays(days, locations, selectedIds, startPB')
  /\ lastOp' = "toggleStartPB"
  /\ edited' = FALSE
  /\ UNCHANGED << fetched, locations, selectedIds, settings, counters >>

(***************************************************************************)
(* Initial state: the component is mounted, the data is loaded, the        *)
(* effect has generated the day list of the empty selection                *)
(***************************************************************************)
NoHotel == ""
Islands == {DEFAULT_ISLANDS[i] : i \in 1..Len(DEFAULT_ISLANDS)} \cup {Barren}

\* the state of a freshly mounted App, the catalogue aside
InitSession ==
  /\ selectedIds = <<>>
  /\ startPB = TRUE
  /\ days = generateItineraryDays(<<>>, TRUE)
  /\ adults = 2
  /\ infants = 0
  /\ essentials = [ferryClass |-> "Deluxe", cabModelId |-> "suv"]
  /\ scooterIslands = {}
  /\ chosenHotels = [isl \in Islands |-> NoHotel]
  /\ addonIds = <<>>
  /\ lastOp = "mount"
  /\ edited = FALSE
  /\ nEdits = 0
  /\ nSettings = 0

\* a session on one of the catalogues, loaded from a file that holds its
\* records in normalised form
InitWith(datasets) ==
  /\ locations \in datasets
  /\ fetched = locations
  /\ InitSession

(***************************************************************************)
(* Specification of the generator: every selection the user can build      *)
(***************************************************************************)
InitGen == InitWith({DataLeisure, DataMixed})

NextGen == toggleLocation \/ onAddLocation \/ toggleStartPB

SpecGen == InitGen /\ [][NextGen]_vars

\* the day list is the one the effect generated last, untouched by day tools
justGenerated == ~edited

(***************************************************************************)
(* Day tools.  The transport selector, "Add empty day after" and "Delete   *)
(* day" are rendered on visiting days only; "Add another day" adds after   *)
(* the last day; the move buttons are rendered on every item.              *)
(***************************************************************************)
InsertAt(s, i, x) == SubSeq(s, 1, i) \o <<x>> \o SubSeq(s, i + 1, Len(s))
RemoveAt(s, i) == SubSeq(s, 1, i - 1) \o SubSeq(s, i + 1, Len(s))

\* indices are 1-based here: day i is index i - 1 of the source
addEmptyDayAfterDays(prev, i) ==
  LET baseIsland == IF i \in 1..Len(prev) /\ Truthy(prev[i].island)
                      THEN prev[i].island ELSE PB
  IN  InsertAt(prev, i, [island |-> baseIsland, items |-> <<>>,
                         transport |-> "Point-to-Point"])

\* deleteDayDays with splice(index): the day and all days after it go
deleteDayDays_RemovesRest(prev, i) ==
  IF Len(prev) <= 1 THEN prev ELSE SubSeq(prev, 1, i - 1)

deleteDayDays(prev, i) ==
  IF Len(prev) <= 1 THEN prev ELSE RemoveAt(prev, i)

\* moveItemDays putting the item at the front of the target day
moveItemDays_Unshift(prev, fromDay, k, dir) ==
  LET toDay == fromDay + dir
  IN  IF toDay < 1 \/ toDay > Len(prev) THEN prev
      ELSE [d \in 1..Len(prev) |->
              IF d = fromDay
                THEN [prev[d] EXCEPT !.items = RemoveAt(prev[d].items, k)]
              ELSE IF d = toDay
                THEN [prev[d] EXCEPT !.items = <<prev[fromDay].items[k]>> \o prev[d].items]
              ELSE prev[d]]

\* dir is -1 or +1; k is an existing item of day fromDay
moveItemDays(prev, fromDay, k, dir) ==
  LET toDay == fromDay + dir
  IN  IF toDay < 1 \/ toDay > Len(prev) THEN prev
      ELSE [d \in 1..Len(prev) |->
              IF d = fromDay
                THEN [prev[d] EXCEPT !.items = RemoveAt(prev[d].items, k)]
              ELSE IF d = toDay
                THEN [prev[d] EXCEPT !.items = Append(prev[d].items, prev[fromDay].items[k])]
              ELSE prev[d]]

setTransportForDayDays(prev, i, mode) ==
  [prev EXCEPT ![i] = [prev[i] EXCEPT !.transport = mode]]

mayAct == nEdits + nSettings < MaxOps

addEmptyDayAfter ==
  /\ mayAct
  /\ \E i \in 1..Len(days) :
       /\ IsVisitingDay(days[i]) \/ i = Len(days)
       /\ days' = addEmptyDayAfterDays(days, i)
  /\ lastOp' = "addEmptyDayAfter"
  /\ edited' = TRUE
  /\ nEdits' = nEdits + 1
  /\ UNCHANGED << fetched, locations, selectedIds, startPB, settings, nSettings >>

deleteDay ==
  /\ mayAct
  /\ Len(days) > 1
  /\ \E i \in 1..Len(days) :
       /\ IsVisitingDay(days[i])
       /\ days' = deleteDayDays(days, i)
  /\ lastOp' = "deleteDay"
  /\ edited' = TRUE
  /\ nEdits' = nEdits + 1
  /\ UNCHANGED << fetched, locations, selectedIds, startPB, settings, nSettings >>

moveItem ==
  /\ mayAct
  /\ \E fromDay \in 1..Len(days) : \E k \in 1..Len(days[fromDay].items) :
       \E dir \in {-1, 1} :
         days' = moveItemDays(days, fromDay, k, dir)
  /\ lastOp' = "moveItem"
  /\ edited' = TRUE
  /\ nEdits' = nEdits + 1
  /\ UNCHANGED << fetched, locations, selectedIds, startPB, settings, nSettings >>

\* the selector fires when another option is picked
setTransportForDay ==
  /\ mayAct
  /\ \E i \in 1..Len(days) : \E mode \in TransportModes :
       /\ IsVisitingDay(days[i])
       /\ mode # days[i].transport
       /\ days' = setTransportForDayDays(days, i, mode)
  /\ lastOp' = "setTransportForDay"
  /\ edited' = TRUE
  /\ nEdits' = nEdits + 1
  /\ UNCHANGED << fetched, locations, selectedIds, startPB, settings, nSettings >>

(***************************************************************************)
(* Settings: party size, essentials, hotels, scooter islands, add-ons      *)
(***************************************************************************)
\* Number(e.target.value) || 0 for the whole numbers typed into the field
PaxInputs == 0..MaxPax

\* the options of the class selector, and a value outside them
FerryClassInputs == {"Economy", "Deluxe", "Luxury", "Premium"}

\* the options of the cab selector, and a value outside them
CabModelInputs == {CAB_MODELS[i].id : i \in 1..Len(CAB_MODELS)} \cup {"hatchback"}

\* Object.keys(nightsByIsland): the islands of the visiting days, in order of
\* first appearance
RECURSIVE nightIslands(_)
nightIslands(ds) ==
  IF ds = <<>> THEN <<>>
  ELSE LET init == nightIslands(SubSeq(ds, 1, Len(ds) - 1))
           day  == ds[Len(ds)]
       IN  IF IsVisitingDay(day) /\ day.island \notin Range(init)
             THEN Append(init, day.island) ELSE init

\* nightsByIsland counting every day labelled with the island, ferry and
\* departure days included
nightsByIsland_EveryDay(ds, island) ==
  Cardinality({d \in 1..Len(ds) : ds[d].island = island})

nightsByIsland(ds, island) ==
  Cardinality({d \in 1..Len(ds) : IsVisitingDay(ds[d]) /\ ds[d].island = island})

setAdults ==
  /\ mayAct
  /\ \E n \in PaxInputs : n # adults /\ adults' = n
  /\ lastOp' = "setAdults"
  /\ nSettings' = nSettings + 1
  /\ UNCHANGED << fetched, locations, selectedIds, startPB, days, edited, nEdits, infants, essentials,
                  scooterIslands, chosenHotels, addonIds >>

setInfants ==
  /\ mayAct
  /\ \E n \in PaxInputs : n # infants /\ infants' = n
  /\ lastOp' = "setInfants"
  /\ nSettings' = nSettings + 1
  /\ UNCHANGED << fetched, locations, selectedIds, startPB, days, edited, nEdits, adults, essentials,
                  scooterIslands, chosenHotels, addonIds >>

setFerryClass ==
  /\ mayAct
  /\ \E c \in FerryClassInputs :
       /\ c # essentials.ferryClass
       /\ essentials' = [essentials EXCEPT !.ferryClass = c]
  /\ lastOp' = "setFerryClass"
  /\ nSettings' = nSettings + 1
  /\ UNCHANGED << fetched, locations, selectedIds, startPB, days, edited, nEdits, adults, infants,
                  scooterIslands, chosenHotels, addonIds >>

setCabModel ==
  /\ mayAct
  /\ \E c \in CabModelInputs :
       /\ c # essentials.cabModelId
       /\ essentials' = [essentials EXCEPT !.cabModelId = c]
  /\ lastOp' = "setCabModel"
  /\ nSettings' = nSettings + 1
  /\ UNCHANGED << fetched, locations, selectedIds, startPB, days, edited, nEdits, adults, infants,
                  scooterIslands, chosenHotels, addonIds >>

\* the hotel step lists the islands of nightsByIsland with their hotels
chooseHotel ==
  /\ mayAct
  /\ \E island \in Range(nightIslands(days)) :
       \E h \in 1..Len(MOCK_HOTELS(island)) :
         chosenHotels' = [chosenHotels EXCEPT ![island] = MOCK_HOTELS(island)[h].id]
  /\ lastOp' = "chooseHotel"
  /\ nSettings' = nSettings + 1
  /\ UNCHANGED << fetched, locations, selectedIds, startPB, days, edited, nEdits, adults, infants,
                  essentials, scooterIslands, addonIds >>

\* toggleScooter that also rewrites the transport of the island's days
toggleScooter_RewritesDays ==
  /\ mayAct
  /\ \E d \in 1..Len(days) :
       /\ Truthy(days[d].island)
       /\ scooterIslands' =
            IF days[d].island \in scooterIslands
              THEN scooterIslands \ {days[d].island}
              ELSE scooterIslands \cup {days[d].island}
       /\ days' = [e \in 1..Len(days) |->
                     IF days[e].island = days[d].island /\ IsVisitingDay(days[e])
                       THEN [days[e] EXCEPT !.transport = "Scooter"]
                       ELSE days[e]]
  /\ lastOp' = "toggleScooter"
  /\ nSettings' = nSettings + 1
  /\ UNCHANGED << fetched, locations, selectedIds, startPB, edited, nEdits, adults, infants,
                  essentials, chosenHotels, addonIds >>

\* one checkbox per island of the day list
toggleScooter ==
  /\ mayAct
  /\ \E d \in 1..Len(days) :
       /\ Truthy(days[d].island)
       /\ scooterIslands' =
            IF days[d].island \in scooterIslands
              THEN scooterIslands \ {days[d].island}
              ELSE scooterIslands \cup {days[d].island}
  /\ lastOp' = "toggleScooter"
  /\ nSettings' = nSettings + 1
  /\ UNCHANGED << fetched, locations, selectedIds, startPB, days, edited, nEdits, adults, infants,
                  essentials, chosenHotels, addonIds >>

\* the adventure cards toggle an activity of the catalogue
toggleAddon ==
  /\ mayAct
  /\ \E a \in 1..Len(activities) :
       addonIds' = toggledIds(addonIds, activities[a].id)
  /\ lastOp' = "toggleAddon"
  /\ nSettings' = nSettings + 1
  /\ UNCHANGED << fetched, locations, selectedIds, startPB, days, edited, nEdits, adults, infants,
                  essentials, scooterIslands, chosenHotels >>

\* the modal's adventure buttons add an activity linked to the open
\* location; an id already chosen leaves the list as it is
onAddAdventure ==
  /\ mayAct
  /\ \E a \in 1..Len(activities) :
       /\ Truthy(activities[a].id)
       /\ addedIds(addonIds, activities[a].id) # addonIds
       /\ addonIds' = addedIds(addonIds, activities[a].id)
  /\ lastOp' = "onAddAdventure"
  /\ nSettings' = nSettings + 1
  /\ UNCHANGED << fetched, locations, selectedIds, startPB, days, edited, nEdits, adults, infants,
                  essentials, scooterIslands, chosenHotels >>

(***************************************************************************)
(* Cost lines                                                              *)
(***************************************************************************)
\* (MOCK_HOTELS[island] || []).find((h) => h.id === hid), as the price it adds
hotelPrice(island, hid) ==
  LET hs == MOCK_HOTELS(island)
      found == {h \in 1..Len(hs) : hs[h].id = hid}
  IN  IF found = {} THEN 0 ELSE safeNum(Num(hs[SetMinOf(found)].sell_price))

hotelsTotalOf(ds, hotels) ==
  LET keys == nightIslands(ds)
  IN  SumSeq([i \in 1..Len(keys) |->
                IF ~Truthy(hotels[keys[i]]) THEN 0
                ELSE hotelPrice(keys[i], hotels[keys[i]]) * nightsByIsland(ds, keys[i])])

\* addonPrice reading the price field before basePriceINR
addonPrice_PriceFirst(id) ==
  LET found == {a \in 1..Len(activities) : activities[a].id = id}
      ad    == IF found = {} THEN [id |-> id] ELSE activities[SetMinOf(found)]
  IN  IF ~Nullish(Field(ad, "price"))
        THEN safeNum(Field(ad, "price"))
        ELSE safeNum(Field(ad, "basePriceINR"))

\* safeNum(ad?.basePriceINR ?? ad?.price) for the first activity with this
\* id; ad is undefined when no activity has the id
addonPrice(id) ==
  LET found == {a \in 1..Len(activities) : activities[a].id = id}
      ad    == IF found = {} THEN [id |-> id] ELSE activities[SetMinOf(found)]
  IN  IF ~Nullish(Field(ad, "basePriceINR"))
        THEN safeNum(Field(ad, "basePriceINR"))
        ELSE safeNum(Field(ad, "price"))

addonsTotalOf(ids) == SumSeq([i \in 1..Len(ids) |-> addonPrice(ids[i])])

ferryLegCountOf(ds) == SumSeq([d \in 1..Len(ds) |-> CountType(ds[d], "ferry")])

\* ferryTotalOf without the floor of one paying adult
ferryTotalOf_NoFloor(ds, ferryClass, nAdults) ==
  (ferryLegCountOf(ds) * FERRY_BASE_ECON * FERRY_CLASS_MULT(ferryClass)
     * nAdults) \div 10

ferryTotalOf(ds, ferryClass, nAdults) ==
  (ferryLegCountOf(ds) * FERRY_BASE_ECON * FERRY_CLASS_MULT(ferryClass)
     * Max(1, nAdults)) \div 10

cabDayRateOf(cabModelId) ==
  LET found == {c \in 1..Len(CAB_MODELS) : CAB_MODELS[c].id = cabModelId}
  IN  IF found = {} THEN CAB_MODELS[1].dayRate
      ELSE CAB_MODELS[SetMinOf(found)].dayRate

\* dayLogistics charging the hops between stops only
dayLogistics_HopsOnly(day, scooters, cabModelId) ==
  IF ~IsVisitingDay(day) THEN 0
  ELSE IF day.island \in scooters THEN SCOOTER_DAY_RATE
  ELSE IF day.transport = "Day Cab" THEN cabDayRateOf(cabModelId)
  ELSE IF day.transport = "Scooter" THEN SCOOTER_DAY_RATE
  ELSE Max(0, CountType(day, "location") - 1) * P2P_RATE_PER_HOP

\* dayLogistics asking for the day's transport before the island's scooter
\* opt-in
dayLogistics_CabBeforeScooter(day, scooters, cabModelId) ==
  IF ~IsVisitingDay(day) THEN 0
  ELSE IF day.transport = "Day Cab" THEN cabDayRateOf(cabModelId)
  ELSE IF day.island \in scooters THEN SCOOTER_DAY_RATE
  ELSE IF day.transport = "Scooter" THEN SCOOTER_DAY_RATE
  ELSE Max(1, CountType(day, "location") - 1) * P2P_RATE_PER_HOP

\* what one day adds to the ground transport line
dayLogistics(day, scooters, cabModelId) ==
  IF ~IsVisitingDay(day) THEN 0
  ELSE IF day.island \in scooters THEN SCOOTER_DAY_RATE
  ELSE IF day.transport = "Day Cab" THEN cabDayRateOf(cabModelId)
  ELSE IF day.transport = "Scooter" THEN SCOOTER_DAY_RATE
  ELSE Max(1, CountType(day, "location") - 1) * P2P_RATE_PER_HOP

logisticsTotalOf(ds, scooters, cabModelId) ==
  SumSeq([d \in 1..Len(ds) |-> dayLogistics(ds[d], scooters, cabModelId)])

hotelsTotal == hotelsTotalOf(days, chosenHotels)
addonsTotal == addonsTotalOf(addonIds)
ferryLegCount == ferryLegCountOf(days)
ferryTotal == ferryTotalOf(days, essentials.ferryClass, adults)
logisticsTotal == logisticsTotalOf(days, scooterIslands, essentials.cabModelId)

\* grandTotal with the ferry line left out
grandTotal_NoFerry == hotelsTotal + addonsTotal + logisticsTotal

grandTotal == hotelsTotal + addonsTotal + logisticsTotal + ferryTotal

(***************************************************************************)
(* Specification of a session: selection changes, day tools and settings   *)
(* on the small catalogue                                                  *)
(***************************************************************************)
InitApp == InitWith({DataSmall})

NextApp ==
  \/ toggleLocation
  \/ onAddLocation
  \/ toggleStartPB
  \/ addEmptyDayAfter
  \/ deleteDay
  \/ moveItem
  \/ setTransportForDay
  \/ setAdults
  \/ setInfants
  \/ setFerryClass
  \/ setCabModel
  \/ chooseHotel
  \/ toggleScooter
  \/ toggleAddon
  \/ onAddAdventure

SpecApp == InitApp /\ [][NextApp]_vars

(***************************************************************************)
(* Specification of the ground transport of a trip: selection on the hub   *)
(* catalogue, transport per day, scooter islands and cab model             *)
(***************************************************************************)
InitGround == InitWith({DataHub})

NextGround ==
  \/ toggleLocation
  \/ setTransportForDay
  \/ toggleScooter
  \/ setCabModel

SpecGround == InitGround /\ [][NextGround]_vars

(***************************************************************************)
(* Specification of the load: a locations file of one record is fetched,   *)
(* normalised and given its moods                                          *)
(***************************************************************************)
\* locs.map(normalizeLocation), then the locations memo
loadData ==
  /\ lastOp = "mount"
  /\ locations = <<>>
  /\ fetched # <<>>
  /\ locations' = [i \in 1..Len(fetched) |-> withMoods(normalizeLocation(fetched[i]))]
  /\ days' = regeneratedDays(days, locations', selectedIds, startPB)
  /\ lastOp' = "loadData"
  /\ edited' = FALSE
  /\ UNCHANGED << fetched, selectedIds, startPB, settings, counters >>

InitLoad ==
  /\ fetched \in {<<raw>> : raw \in RawRecords}
  /\ locations = <<>>
  /\ InitSession

NextLoad == loadData

SpecLoad == InitLoad /\ [][NextLoad]_vars

(***************************************************************************)
(* Vocabulary of the properties                                            *)
(***************************************************************************)
itemDuration(it) == IF it.type = "location" THEN it.durationHrs ELSE 0
dayDuration(day) == SumSeq([k \in 1..Len(day.items) |-> itemDuration(day.items[k])])

\* the positions <<day, item>> of the location items that refer to id
placesOf(id) ==
  UNION { { <<d, k>> : k \in {j \in 1..Len(days[d].items) :
                                /\ days[d].items[j].type = "location"
                                /\ days[d].items[j].ref = id} }
          : d \in 1..Len(days) }

\* the days that hold location items of an island
locationDaysOf(island) ==
  {d \in 1..Len(days) : days[d].island = island /\ HasType(days[d], "location")}

SetMax(S) == CHOOSE x \in S : \A y \in S : y <= x

currentOrder == visitOrder(selectedLocs, startPB)

(***************************************************************************)
(* Properties of the generated itinerary (SpecGen)                         *)
(***************************************************************************)
\* C1: for every selection and either value of the flag, the first generated
\* day contains an arrival item and the last generated day contains exactly
\* one departure item.
C1_ArrivalFirstDepartureLast ==
  justGenerated =>
    /\ Len(days) >= 1
    /\ HasType(days[1], "arrival")
    /\ CountType(days[Len(days)], "departure") = 1

C1_Witness ==
  /\ lastOp = "toggleStartPB"
  /\ ~startPB
  /\ Len(selectedLocs) >= 2
  /\ HasType(days[1], "arrival")
  /\ HasType(days[Len(days)], "departure")

\* C2: for a non-empty selection every selected location is a location item
\* exactly once across the generated days, every location item refers to a
\* selected location, and it sits on a day labelled with that location's
\* island.
C2_EachStopOnceOnItsIsland ==
  (justGenerated /\ selectedLocs # <<>>) =>
    /\ \A i \in 1..Len(selectedLocs) :
         Cardinality(placesOf(selectedLocs[i].id)) = 1
    /\ \A d \in 1..Len(days) : \A k \in 1..Len(days[d].items) :
         days[d].items[k].type = "location" =>
           \E i \in 1..Len(selectedLocs) :
             /\ selectedLocs[i].id = days[d].items[k].ref
             /\ selectedLocs[i].island = days[d].island

C2_Witness ==
  /\ justGenerated
  /\ startPB
  /\ Len(selectedLocs) = 5
  /\ \E d \in 1..Len(days) : days[d].island = PB /\ CountType(days[d], "location") >= 2
  /\ \E d \in 1..Len(days) : days[d].island = Barren /\ HasType(days[d], "location")

\* C3: every generated visiting day has at most 4 location items, and its
\* items' durations sum to at most 7 hours unless the day has exactly one
\* item.
C3_DayCapacity ==
  justGenerated =>
    \A d \in 1..Len(days) :
      IsVisitingDay(days[d]) =>
        /\ CountType(days[d], "location") <= 4
        /\ (dayDuration(days[d]) <= 7 \/ Len(days[d].items) = 1)

\* a day closed by the count limit although the next stop would fit in time
C3_Witness ==
  /\ justGenerated
  /\ \E d \in 1..(Len(days) - 1) :
       /\ CountType(days[d], "location") = 4
       /\ dayDuration(days[d]) + itemDuration(days[d + 1].items[1]) <= 7
       /\ HasType(days[d + 1], "location")
       /\ days[d + 1].island = days[d].island

\* C4: whenever two consecutive islands of the visiting order differ,
\* exactly one ferry day lies between the last day of the first and the
\* first day of the second, and its ferry item names the first island as
\* source and the second as destination.  (The hub put in front of the order
\* without a selected stop has the arrival day as its only day.)
C4_OneFerryBetweenIslands ==
  (justGenerated /\ selectedLocs # <<>>) =>
    \A j \in 1..(Len(currentOrder) - 1) :
      currentOrder[j] # currentOrder[j + 1] =>
        LET a == IF locationDaysOf(currentOrder[j]) = {} THEN 1
                 ELSE SetMax(locationDaysOf(currentOrder[j]))
            b == SetMinOf(locationDaysOf(currentOrder[j + 1]))
            between == {d \in (a + 1)..(b - 1) : HasType(days[d], "ferry")}
        IN  /\ locationDaysOf(currentOrder[j + 1]) # {}
            /\ Cardinality(between) = 1
            /\ \A d \in between :
                 /\ Len(days[d].items) = 1
                 /\ days[d].items[1].from = currentOrder[j]
                 /\ days[d].items[1].to = currentOrder[j + 1]

C4_Witness ==
  /\ justGenerated
  /\ ~startPB
  /\ currentOrder = << Barren, PB, Neil >>
  /\ \E d \in 1..Len(days) :
       /\ HasType(days[d], "ferry")
       /\ days[d].items[1].from = Barren
       /\ days[d].items[1].to = PB

\* C7: the generated day sequence has at least 2 days, and for an empty
\* selection exactly 2: the arrival day, then a day holding only a departure
\* item.
C7_AtLeastTwoDays ==
  justGenerated =>
    /\ Len(days) >= 2
    /\ selectedLocs = <<>> =>
         /\ Len(days) = 2
         /\ HasType(days[1], "arrival")
         /\ days[2].items = << [type |-> "departure"] >>

C7_Witness ==
  /\ lastOp = "toggleLocation"
  /\ selectedIds = <<>>
  /\ Len(days) = 2

(***************************************************************************)
(* Properties of a session (SpecApp)                                       *)
(***************************************************************************)
SelectionOps == {"toggleLocation", "onAddLocation", "toggleStartPB"}
DayToolOps == {"addEmptyDayAfter", "deleteDay", "moveItem", "setTransportForDay"}

\* the ferry items of all days, counted item by item
ferryItems ==
  UNION { { <<d, k>> : k \in {j \in 1..Len(days[d].items) :
                                days[d].items[j].type = "ferry"} }
          : d \in 1..Len(days) }

\* C5: for every day list and every choice of settings the grand total is
\* lodging + transit + ground transport + add-ons.
C5_GrandTotalIsSumOfLines ==
  grandTotal = hotelsTotal + ferryTotal + logisticsTotal + addonsTotal

C5_Witness ==
  /\ hotelsTotal > 0
  /\ ferryTotal > 0
  /\ logisticsTotal > 0
  /\ addonsTotal > 0
  /\ grandTotal > hotelsTotal + logisticsTotal + addonsTotal

\* C6: the transit total is (ferry items across all days) x 1500 x class
\* multiplier x max(1, adults), the multiplier being 1, 1.4, 1.9 for Economy,
\* Deluxe, Luxury and 1 for another class; a step that changes the infant
\* count leaves it unchanged.
\* (Both sides are multiplied by 10 to keep the multiplier whole.)
C6_TransitTotal ==
  /\ [](LET tenths == IF essentials.ferryClass = "Deluxe" THEN 14
                      ELSE IF essentials.ferryClass = "Luxury" THEN 19
                      ELSE 10
            payers == IF adults >= 1 THEN adults ELSE 1
        IN  10 * ferryTotal = Cardinality(ferryItems) * 1500 * tenths * payers)
  /\ [][infants' # infants => ferryTotal' = ferryTotal]_vars

\* no adult entered and a class outside the table: two legs are charged once
\* at the economy fare
C6_Witness ==
  /\ adults = 0
  /\ essentials.ferryClass = "Premium"
  /\ Cardinality(ferryItems) = 2
  /\ ferryTotal = 3000

\* C8 as stated: for an empty selection all four cost lines computed from
\* the generated itinerary are 0.
C8_Original_AllLinesZero ==
  (justGenerated /\ selectedLocs = <<>>) =>
    /\ hotelsTotal = 0
    /\ ferryTotal = 0
    /\ logisticsTotal = 0
    /\ addonsTotal = 0

\* C8 amended: for an empty selection the generated itinerary has a transit
\* line of 0; the ground transport line charges the arrival day: one
\* point-to-point hop, or the scooter day-rate when the hub is opted into
\* the flat mode; the lodging line is one night of the hub hotel if one is
\* chosen and 0 otherwise; the add-ons line is 0 when no add-on is chosen.
C8_EmptySelectionLines ==
  (justGenerated /\ selectedLocs = <<>>) =>
    /\ ferryTotal = 0
    /\ logisticsTotal = (IF PB \in scooterIslands THEN 800 ELSE 500)
    /\ hotelsTotal = (IF chosenHotels[PB] = NoHotel THEN 0
                      ELSE hotelPrice(PB, chosenHotels[PB]))
    /\ (addonIds = <<>> => addonsTotal = 0)

\* the selection was emptied again; nothing is chosen, one hop is charged
C8_Witness ==
  /\ lastOp = "toggleLocation"
  /\ selectedIds = <<>>
  /\ chosenHotels[PB] = NoHotel
  /\ addonIds = <<>>
  /\ hotelsTotal = 0
  /\ ferryTotal = 0
  /\ logisticsTotal = 500

\* C9: whenever the selection or the flag changes, the day list becomes
\* generateItineraryDays of the new selection and flag, whatever the day
\* list held before: earlier day-tool edits are gone.
C9_RegenerationDiscardsEdits ==
  [][ (selectedIds' # selectedIds \/ startPB' # startPB) =>
        /\ days' = generateItineraryDays(selectedLocsOf(locations', selectedIds'), startPB')
        /\ edited' = FALSE ]_vars

\* a day tool ran earlier, then the flag was flipped
C9_Witness ==
  /\ nEdits > 0
  /\ lastOp = "toggleStartPB"
  /\ ~edited
  /\ days = generateItineraryDays(selectedLocs, startPB)

\* C10: the day list changes only in a step that changes the selection or
\* the flag, or in a step of one of the four day tools; a step that changes
\* adults, infants, ferry class, cab model, hotel choices, scooter islands
\* or add-ons leaves the day list as it is, edits included.
C10_DayListFrame ==
  [][ /\ days' # days =>
           \/ selectedIds' # selectedIds
           \/ startPB' # startPB
           \/ lastOp' \in DayToolOps
      /\ settings' # settings => (days' = days /\ edited' = edited) ]_vars

\* an edited day list after a settings change
C10_Witness ==
  /\ edited
  /\ nSettings > 0
  /\ lastOp \in {"setAdults", "setInfants", "setFerryClass", "setCabModel",
                 "chooseHotel", "toggleScooter", "toggleAddon"}
  /\ days # generateItineraryDays(selectedLocs, startPB)

(***************************************************************************)
(* Transit days and the day tools                                          *)
(***************************************************************************)
\* the days that hold a ferry item or a departure item
transitDays(ds) ==
  {d \in 1..Len(ds) : HasType(ds[d], "ferry") \/ HasType(ds[d], "departure")}

\* C11: every generated day that contains a ferry item or a departure item
\* has the transport "-".
C11_GeneratedTransitDaysHaveNoTransport ==
  justGenerated =>
    \A d \in transitDays(days) : days[d].transport = NoTransport

\* a generated list with a ferry out, a ferry between two islands, the ferry
\* back to the hub and the departure day
C11_Witness ==
  /\ justGenerated
  /\ \E d \in transitDays(days) :
       HasType(days[d], "ferry") /\ days[d].items[1].to = PB
  /\ \E d \in transitDays(days) :
       HasType(days[d], "ferry") /\ days[d].items[1].to # PB
                                 /\ days[d].items[1].from # PB
  /\ HasType(days[Len(days)], "departure")
  /\ Cardinality(transitDays(days)) >= 4

\* C12: after generation, no sequence of day-tool operations (set transport,
\* move item, insert day, delete day) leads to a day that contains a ferry
\* item or a departure item and has a transport other than "-".
C12_TransitDaysKeepNoTransport ==
  \A d \in transitDays(days) : days[d].transport = NoTransport

(***************************************************************************)
(* Properties of the cost lines, line by line                              *)
(***************************************************************************)
\* the sum of f over the set S
RECURSIVE SumOver(_, _)
SumOver(f, S) ==
  IF S = {} THEN 0
  ELSE LET x == CHOOSE y \in S : TRUE
       IN  f[x] + SumOver(f, S \ {x})

\* the days labelled with the island that hold neither a ferry nor a
\* departure item
stayDays(island) ==
  {d \in 1..Len(days) : /\ days[d].island = island
                        /\ ~HasType(days[d], "ferry")
                        /\ ~HasType(days[d], "departure")}

\* C13: the lodging total is the sum, over the islands with a chosen hotel,
\* of that hotel's nightly rate times the number of days labelled with the
\* island that hold neither a ferry nor a departure item; an island without
\* a chosen hotel, and a hotel chosen for an island without such a day, add 0.
C13_LodgingTotal ==
  /\ hotelsTotal =
       SumOver([isl \in Islands |->
                  IF chosenHotels[isl] = NoHotel THEN 0
                  ELSE hotelPrice(isl, chosenHotels[isl]) * Cardinality(stayDays(isl))],
               Islands)
  /\ hotelsTotal =
       SumOver([isl \in Islands |->
                  hotelPrice(isl, chosenHotels[isl]) * Cardinality(stayDays(isl))],
               {isl \in Islands : chosenHotels[isl] # NoHotel /\ stayDays(isl) # {}})

\* hotels chosen on two islands, the stop of one of them deselected since:
\* that island has no night left, the hub still has its arrival night
C13_Witness ==
  /\ chosenHotels[Havelock] # NoHotel
  /\ stayDays(Havelock) = {}
  /\ chosenHotels[PB] # NoHotel
  /\ stayDays(PB) # {}
  /\ hotelsTotal = hotelPrice(PB, chosenHotels[PB]) * Cardinality(stayDays(PB))
  /\ hotelsTotal > 0

\* what the rule of the ground transport line charges for one day
groundCharge(day) ==
  LET stops == CountType(day, "location")
      known == {c \in 1..Len(CAB_MODELS) : CAB_MODELS[c].id = essentials.cabModelId}
      cab   == IF known = {} THEN CAB_MODELS[1].dayRate
               ELSE CAB_MODELS[CHOOSE c \in known : TRUE].dayRate
  IN  CASE day.island \in scooterIslands -> SCOOTER_DAY_RATE
        [] day.island \notin scooterIslands /\ day.transport = "Day Cab" -> cab
        [] day.island \notin scooterIslands /\ day.transport = "Scooter" -> SCOOTER_DAY_RATE
        [] OTHER -> IF stops - 1 > 1 THEN (stops - 1) * P2P_RATE_PER_HOP
                    ELSE P2P_RATE_PER_HOP

\* C14: the ground transport total is the sum over the visiting days (no
\* ferry, no departure item) of: the scooter day rate if the day's island is
\* opted into scooters, whatever the day's transport; else the cab day rate
\* if the transport is "Day Cab" (the first model's rate for an unknown
\* model id); else the scooter day rate if the transport is "Scooter"; else
\* max(1, stops - 1) times the per-hop rate.
C14_GroundTotal ==
  LET visiting == {d \in 1..Len(days) : ~HasType(days[d], "ferry")
                                         /\ ~HasType(days[d], "departure")}
  IN  logisticsTotal =
        SumOver([d \in 1..Len(days) |-> groundCharge(days[d])], visiting)

\* the three hub stops share a day set to point-to-point (two hops), the
\* arrival day without a stop is charged one hop, and the leisure island is
\* opted into scooters
C14_Witness ==
  /\ \E d \in 1..Len(days) :
       /\ CountType(days[d], "location") = 3
       /\ days[d].transport = "Point-to-Point"
       /\ days[d].island \notin scooterIslands
  /\ \E d \in 1..Len(days) :
       /\ days[d].island = Havelock
       /\ HasType(days[d], "location")
  /\ scooterIslands = {Havelock}
  /\ logisticsTotal = P2P_RATE_PER_HOP + 2 * P2P_RATE_PER_HOP + SCOOTER_DAY_RATE

\* the amount a price field stands for: the number it holds, 0 for a field
\* that holds no finite number
amountOf(record, name) ==
  IF name \in DOMAIN record /\ record[name].t = "number" /\ record[name].finite
    THEN record[name].v
    ELSE 0

\* the price the rule of the add-ons line gives to a chosen id
addonCharge(id) ==
  LET matching == {a \in 1..Len(activities) : activities[a].id = id}
  IN  IF matching = {} THEN 0
      ELSE LET ad == activities[CHOOSE a \in matching : \A b \in matching : a <= b]
               hasBase  == "basePriceINR" \in DOMAIN ad /\ ad.basePriceINR # Null
               hasPrice == "price" \in DOMAIN ad /\ ad.price # Null
           IN  IF hasBase THEN amountOf(ad, "basePriceINR")
               ELSE IF hasPrice THEN amountOf(ad, "price")
               ELSE 0

\* C15: the add-ons total is the sum, over the chosen add-on ids, of the
\* activity's price, taken from basePriceINR or else from price; an activity
\* with neither field, and an id that matches no activity, count 0.
C15_AddonsTotal ==
  addonsTotal = SumOver([i \in 1..Len(addonIds) |-> addonCharge(addonIds[i])],
                        1..Len(addonIds))

\* two add-ons chosen: one with both fields (basePriceINR counts), one whose
\* basePriceINR is null (price counts)
C15_Witness ==
  /\ Range(addonIds) = {"scuba", "kayak"}
  /\ Len(addonIds) = 2
  /\ addonsTotal = 4500 + 1800

\* C16: each of the four cost lines is non-negative for every input: a
\* price, rate or count that is not finite or is negative counts as 0.
C16_CostLinesNonNegative ==
  /\ hotelsTotal >= 0
  /\ ferryTotal >= 0
  /\ logisticsTotal >= 0
  /\ addonsTotal >= 0

(***************************************************************************)
(* Properties of the load (SpecLoad)                                       *)
(***************************************************************************)
\* the catalogue was built from the fetched file
isLoaded == lastOp = "loadData"

\* C17: the normalized durationHrs of every location is a finite number that
\* is not negative: the record's durationHrs if that is a finite number,
\* otherwise its typicalHours if that is one, otherwise 2.
C17_DurationFiniteNonNegative ==
  isLoaded =>
    \A i \in 1..Len(locations) :
      LET raw == fetched[i]
          d   == locations[i].durationHrs
      IN  /\ d.t = "number"
          /\ d.finite
          /\ d.v >= 0
          /\ d = IF raw.durationHrs.t = "number" /\ raw.durationHrs.finite
                   THEN raw.durationHrs
                 ELSE IF raw.typicalHours.t = "number" /\ raw.typicalHours.finite
                   THEN raw.typicalHours
                 ELSE Num(2)

\* the record has no duration field, no moods of its own, and a text in
\* which no mood pattern finds a keyword
plainRecord(raw) ==
  /\ raw.durationHrs = Undefined
  /\ raw.typicalHours = Undefined
  /\ raw.moods = Undefined
  /\ raw.name \in {Undefined, Str("Aberdeen Bazaar")}
  /\ raw.location = Undefined
  /\ raw.brief = Undefined

\* C18 as the specification words it: a record with no duration field
\* normalizes to 2 hours, and when no keyword family matches its text its
\* inferred moods include "Balanced".
C18_Original_IncludesBalanced ==
  isLoaded =>
    \A i \in 1..Len(locations) :
      plainRecord(fetched[i]) =>
        /\ locations[i].durationHrs = Num(2)
        /\ "Balanced" \in Range(locations[i].moods.v)

\* C18: a record with no duration field normalizes to 2 hours, and when no
\* keyword family matches its text its inferred moods are "Relaxed" alone:
\* two hours count as a short stop, so the fallback tag is not added.
C18_DefaultDurationIsRelaxed ==
  isLoaded =>
    \A i \in 1..Len(locations) :
      plainRecord(fetched[i]) =>
        /\ locations[i].durationHrs = Num(2)
        /\ locations[i].moods = Arr(<<"Relaxed">>)

\* a loaded record without name, duration and moods
C18_Witness ==
  /\ isLoaded
  /\ plainRecord(fetched[1])
  /\ fetched[1].name = Undefined
  /\ locations[1].name = Str("Unnamed spot")
  /\ locations[1].durationHrs = Num(2)
  /\ locations[1].moods = Arr(<<"Relaxed">>)

(***************************************************************************)
(* Properties of the selection (SpecGen)                                   *)
(***************************************************************************)
\* C19: after any sequence of selection operations (the card toggle and the
\* modal's add-location, in any order, with any ids) selectedIds holds no
\* id more than once.
C19_SelectedIdsHasNoDuplicate ==
  \A i, j \in 1..Len(selectedIds) : selectedIds[i] = selectedIds[j] => i = j

\* a selection built by both handlers: ids were added, one was removed by
\* the card toggle, and the modal added the latest one
C19_Witness ==
  /\ Len(selectedIds) >= 3
  /\ lastOp = "onAddLocation"
  /\ \E l \in 1..Len(locations) :
       /\ locations[l].id \notin Range(selectedIds)
       /\ l < Len(locations)
  /\ selectedIds[1] # locations[1].id

\* the islands of the visiting order that the sort has placed: the order
\* itself, without the hub put in front when the flag is on
sortedIslands == IF startPB THEN Tail(currentOrder) ELSE currentOrder

\* C20: the visiting order sorts the selected islands by their position in
\* the canonical island list; islands that are not in the list come after
\* all islands that are, in the order in which the selection first names
\* them.
C20_UnknownIslandsSortLast ==
  LET o         == sortedIslands
      known(x)  == \E c \in 1..Len(DEFAULT_ISLANDS) : DEFAULT_ISLANDS[c] = x
      place(x)  == CHOOSE c \in 1..Len(DEFAULT_ISLANDS) : DEFAULT_ISLANDS[c] = x
      first(x)  == SetMinOf({l \in 1..Len(selectedLocs) : selectedLocs[l].island = x})
  IN  \A i, j \in 1..Len(o) :
        i < j =>
          /\ known(o[i]) /\ known(o[j]) => place(o[i]) < place(o[j])
          /\ ~(~known(o[i]) /\ known(o[j]))
          /\ ~known(o[i]) /\ ~known(o[j]) => first(o[i]) < first(o[j])

(***************************************************************************)
(* Properties of the generator, continued (SpecGen)                        *)
(***************************************************************************)
\* a stop of the hub is selected
hubSelected == \E l \in 1..Len(selectedLocs) : selectedLocs[l].island = PB

returnsToHub ==
  LET pen == days[Len(days) - 1]
  IN  \E k \in 1..Len(pen.items) : pen.items[k].type = "ferry" /\ pen.items[k].to = PB

\* C22: for a non-empty selection, a ferry day that returns to the hub stands
\* right before the departure day if and only if the last island of the
\* visiting order is not the hub; that day names the last island as the
\* source and the hub as the destination of the ferry.
C22_ReturnFerryIffLastIslandNotHub ==
  (justGenerated /\ selectedIds # <<>>) =>
    LET last == currentOrder[Len(currentOrder)]
        pen  == days[Len(days) - 1]
    IN  /\ HasType(days[Len(days)], "departure")
        /\ returnsToHub <=> last # PB
        /\ last # PB =>
             /\ pen.island = last
             /\ pen.items = << [type |-> "ferry", from |-> last, to |-> PB] >>

\* one generated list that ends on another island, with the ferry back
C22_Witness ==
  /\ justGenerated
  /\ ~startPB
  /\ hubSelected
  /\ Len(currentOrder) >= 2
  /\ currentOrder[Len(currentOrder)] = Neil
  /\ returnsToHub
  /\ days[Len(days) - 1].items[1].from = Neil

\* the time-of-day rank the rule gives to one tag, and to a stop: the lowest
\* rank any of its tags gives, 3 without a tag
tagRank(tag) ==
  IF Mentions(tag, "morning") \/ Mentions(tag, "sunrise") THEN 0
  ELSE IF Mentions(tag, "afternoon") THEN 1
  ELSE IF Mentions(tag, "evening") \/ Mentions(tag, "sunset") THEN 2
  ELSE 3

stopRank(loc) ==
  SetMinOf({3} \cup {tagRank(loc.bestTimes[t]) : t \in 1..Len(loc.bestTimes)})

\* the positions <<day, item>> of the location items on the days labelled
\* with the island, and the reading order on them
stopPlaces(island) ==
  UNION { { <<d, k>> : k \in {j \in 1..Len(days[d].items) :
                                days[d].items[j].type = "location"} }
          : d \in {e \in 1..Len(days) : days[e].island = island} }

readsBefore(p, q) == p[1] < q[1] \/ (p[1] = q[1] /\ p[2] < q[2])

\* the position of the stop with this id in the generator's input
inputIndex(id) == SetMinOf({l \in 1..Len(selectedLocs) : selectedLocs[l].id = id})

\* C23: for each island, reading its location items day by day and item by
\* item gives the island's selected stops sorted by time-of-day rank
\* (morning/sunrise 0, afternoon 1, evening/sunset 2, anything else 3, the
\* lowest rank of any tag); stops of equal rank keep their input order.
C23_IslandStopsInRankOrder ==
  justGenerated =>
    \A island \in Islands :
      /\ {days[p[1]].items[p[2]].ref : p \in stopPlaces(island)}
           = {selectedLocs[l].id : l \in {m \in 1..Len(selectedLocs) :
                                            selectedLocs[m].island = island}}
      /\ \A p, q \in stopPlaces(island) :
           readsBefore(p, q) =>
             LET a == selectedLocs[inputIndex(days[p[1]].items[p[2]].ref)]
                 b == selectedLocs[inputIndex(days[q[1]].items[q[2]].ref)]
             IN  \/ stopRank(a) < stopRank(b)
                 \/ /\ stopRank(a) = stopRank(b)
                    /\ inputIndex(a.id) < inputIndex(b.id)

\* all five stops of the leisure island: the morning stop moved to the
\* front, the stop with two tags ranked by its afternoon tag, the two
\* stops of rank 3 in input order at the end, on a second day
C23_Witness ==
  /\ justGenerated
  /\ Len(selectedLocs) = 5
  /\ \E d \in 1..Len(days) :
       /\ days[d].island = Havelock
       /\ [k \in 1..Len(days[d].items) |-> days[d].items[k].ref]
            = <<"HL3", "HL4", "HL1", "HL2">>
       /\ days[d + 1].island = Havelock
       /\ days[d + 1].items[1].ref = "HL5"

\* the pairs of consecutive days of one island that both hold stops
packedPairs ==
  {d \in 1..(Len(days) - 1) : /\ days[d].island = days[d + 1].island
                               /\ HasType(days[d], "location")
                               /\ HasType(days[d + 1], "location")}

C25_GeneratedTransport ==
  justGenerated =>
    \A d \in 1..Len(days) :
      HasType(days[d], "location") =>
        days[d].transport =
          CASE Len(days[d].items) >= 3 -> "Day Cab"
            [] Len(days[d].items) < 3 /\ days[d].island \in {Havelock, Neil} -> "Scooter"
            [] OTHER -> "Point-to-Point"

\* a leisure island day of four stops by cab beside one of a single stop by
\* scooter
C25_Witness ==
  /\ justGenerated
  /\ \E d \in 1..Len(days) :
       /\ days[d].island = Havelock
       /\ CountType(days[d], "location") = 4
       /\ days[d].transport = "Day Cab"
       /\ days[d + 1].island = Havelock
       /\ CountType(days[d + 1], "location") = 1
       /\ days[d + 1].transport = "Scooter"

(***************************************************************************)
(* Properties of the load, continued (SpecLoad)                            *)
(***************************************************************************)
DurationTags == {"Relaxed", "Balanced", "Active"}
KeywordTags == {"Adventure", "Romantic", "Family", "Photography", "Offbeat"}

\* the loaded records whose moods were inferred
inferredRecords ==
  {i \in 1..Len(locations) :
     ~(fetched[i].moods.t = "array" /\ fetched[i].moods.v # <<>>)}

\* C26 as the specification words it: the inferred mood list has the
\* keyword-family tags first (adventure, romantic, family, photography,
\* offbeat), then the duration tags (relaxed, balanced, active).
C26_Original_KeywordTagsFirst ==
  isLoaded =>
    \A i \in inferredRecords :
      LET m == locations[i].moods.v
      IN  \A a, b \in 1..Len(m) :
            (m[a] \in KeywordTags /\ m[b] \in DurationTags) => a < b

\* the order in which the rules run
ruleOrder ==
  << "Relaxed", "Balanced", "Active",
     "Adventure", "Romantic", "Family", "Photography", "Offbeat" >>

ruleIndex(tag) == CHOOSE r \in 1..Len(ruleOrder) : ruleOrder[r] = tag

\* C26: the inferred mood list follows the evaluation order of the rules:
\* the duration tags first (relaxed for duration <= 2, balanced for >= 3,
\* active for >= 4), then the keyword-family tags (adventure, romantic,
\* family, photography, offbeat, each added when its family matches); a
\* list that would be empty holds the fallback tag alone.
C26_DurationTagsFirst ==
  isLoaded =>
    \A i \in inferredRecords :
      LET m    == locations[i].moods.v
          d    == locations[i].durationHrs
          text == << locations[i].name.v,
                     IF fetched[i].brief = Undefined THEN "" ELSE fetched[i].brief.v >>
          has(tag) == \E a \in 1..Len(m) : m[a] = tag
          short == IF "half" \in DOMAIN d THEN d.v < 2 ELSE d.v <= 2
          alone == m = <<"Balanced">> /\ d = Half(2)
      IN  /\ m # <<>>
          /\ \A a \in 1..Len(m) : m[a] \in DurationTags \cup KeywordTags
          /\ \A a, b \in 1..Len(m) : a < b => ruleIndex(m[a]) < ruleIndex(m[b])
          /\ has("Relaxed") <=> short
          /\ has("Balanced") <=> (d.v >= 3 \/ alone)
          /\ has("Active") <=> d.v >= 4
          /\ has("Adventure") <=> Test(AdventureWords, text)
          /\ has("Romantic") <=> Test(RomanticWords, text)
          /\ has("Family") <=> Test(FamilyWords, text)
          /\ has("Photography") <=> Test(PhotographyWords, text)
          /\ has("Offbeat") <=> Test(OffbeatWords, text)

\* a four-hour stop whose name matches three keyword families
C26_Witness ==
  /\ isLoaded
  /\ 1 \in inferredRecords
  /\ fetched[1].brief = Undefined
  /\ locations[1].durationHrs = Num(4)
  /\ locations[1].moods
       = Arr(<<"Balanced", "Active", "Adventure", "Photography", "Offbeat">>)

\* C27: in every generated itinerary the traveller never changes island
\* without a ferry leg: whenever two consecutive days have different island
\* labels, the earlier one is a ferry day whose ferry item goes from the
\* earlier day's island to the later day's island.
C27_IslandChangeNeedsFerry ==
  justGenerated =>
    \A d \in 1..(Len(days) - 1) :
      days[d].island # days[d + 1].island =>
        \E k \in 1..Len(days[d].items) :
          /\ days[d].items[k].type = "ferry"
          /\ days[d].items[k].from = days[d].island
          /\ days[d].items[k].to = days[d + 1].island

(***************************************************************************)
(* Properties of the day tools (SpecApp)                                   *)
(***************************************************************************)
\* C28: after any sequence of the day tools offered on a generated
\* itinerary (addEmptyDayAfter, deleteDay, moveItem, setTransportForDay) the
\* first day still holds the arrival item and the last day still holds the
\* departure item.
C28_ArrivalAndDepartureStay ==
  /\ days # <<>>
  /\ HasType(days[1], "arrival")
  /\ HasType(days[Len(days)], "departure")

\* how often the item x occurs in the day list ds
occurrences(ds, x) ==
  SumOver([d \in 1..Len(ds) |->
             Cardinality({k \in 1..Len(ds[d].items) : ds[d].items[k] = x})],
          1..Len(ds))

allItems(ds) == UNION {Range(ds[d].items) : d \in 1..Len(ds)}

\* ds2 is ds1 after item k of day fromDay went to the end of day
\* fromDay + dir
movedTo(ds1, ds2, fromDay, k, dir) ==
  LET toDay == fromDay + dir
      its   == ds1[fromDay].items
  IN  /\ Len(ds2) = Len(ds1)
      /\ ds2[fromDay].items = SubSeq(its, 1, k - 1) \o SubSeq(its, k + 1, Len(its))
      /\ ds2[toDay].items = ds1[toDay].items \o <<its[k]>>
      /\ \A d \in 1..Len(ds1) :
           /\ ds2[d].island = ds1[d].island
           /\ ds2[d].transport = ds1[d].transport
           /\ d \notin {fromDay, toDay} => ds2[d].items = ds1[d].items
      /\ \A x \in allItems(ds1) \cup allItems(ds2) :
           occurrences(ds2, x) = occurrences(ds1, x)

\* C29: moveItem(fromDay, itemIdx, dir) with an existing item and a target
\* day in range takes exactly that item out of day fromDay and appends it at
\* the end of day fromDay + dir; the number of days, every day's island and
\* transport and the multiset of all items stay as they are; with the target
\* day out of range nothing changes.
C29_MoveItemFrame ==
  [][ lastOp' = "moveItem" =>
        \E fromDay \in 1..Len(days) : \E k \in 1..Len(days[fromDay].items) :
          \E dir \in {-1, 1} :
            IF fromDay + dir \in 1..Len(days)
              THEN movedTo(days, days', fromDay, k, dir)
              ELSE days' = days ]_vars

\* the ferry item went to the end of the island day that follows it
C29_Witness ==
  /\ lastOp = "moveItem"
  /\ nEdits = 1
  /\ Len(days) = 5
  /\ days[2].items = <<>>
  /\ Len(days[3].items) = 2
  /\ days[3].items[1].type = "location"
  /\ days[3].items[2] = [type |-> "ferry", from |-> PB, to |-> Havelock,
                         time |-> "08:00-09:30"]

\* C30: once an itinerary has been generated the day list never becomes
\* empty, whatever day tools run: deleteDay changes nothing when only one
\* day remains and removes exactly one day otherwise.
C30_DayListNeverEmpty ==
  /\ [](days # <<>>)
  /\ [][ lastOp' = "deleteDay" =>
           IF Len(days) <= 1 THEN days' = days
           ELSE \E i \in 1..Len(days) :
                  days' = SubSeq(days, 1, i - 1) \o SubSeq(days, i + 1, Len(days)) ]_vars

\* days were deleted until one was left: delete is no longer offered
C30_Witness ==
  /\ lastOp = "deleteDay"
  /\ Len(days) = 1
  /\ nEdits = 2

====
